---------------------------- MODULE Spec2Model ----------------------------
(***************************************************************************)
(* A model of src/abnt.py, the ABNT formatter for .docx documents.        *)
(*                                                                         *)
(* The document is the python-docx object tree the functions mutate: the   *)
(* body is the ordered sequence of the children of <w:body>, the          *)
(* paragraphs of doc.paragraphs are its top-level w:p children in order,   *)
(* doc.tables its top-level w:tbl children.  Lengths, sizes and            *)
(* alignments are only ever assigned, never computed with, so they are     *)
(* kept as the strings "1.25cm", "10pt", "JUSTIFY"; "unset" is None.       *)
(* Paragraph text is a sequence of one-character strings, so that          *)
(* `tok in txt`, txt.replace(tok, ''), str.upper and str.strip are         *)
(* computed on the characters as Python computes them.                     *)
(***************************************************************************)
EXTENDS Integers, Sequences, FiniteSets, TLC

VARIABLES
    body,      \* doc.element.body: the sequence of block elements
    styles,    \* doc.styles: style name -> its font and paragraph format
    sections,  \* doc.sections: margins and footer of each section
    cfg,       \* the keyword arguments of apply_abnt_formatting
    pc,        \* the statement control is at
    plist,     \* the list `doc.paragraphs` a for-loop iterates (element ids)
    idx,       \* the position of that for-loop in plist
    in_block,  \* process_long_quote_markers: in_block
    changed,   \* process_long_quote_markers: changed
    in_refs,   \* apply_references_block_format: in_refs
    count,     \* apply_references_block_format: count
    fig_n,     \* ensure_captions: fig_n
    tab_n,     \* ensure_captions: tab_n
    it,        \* ensure_captions: the node lxml's child iterator yields next (0: none)
    i,         \* remove_extra_blank_lines: i (0-based, as in the source)
    nextid,    \* the identity the next created element gets
    err,       \* the exception that left the function, "none" if none
    ui,        \* what the Streamlit page shows for the run
    doc0,      \* history: body, styles and sections when the run started
    trace,     \* history: the functions apply_abnt_formatting has called, in order
    visited,   \* history: the ids ensure_captions' loop body has run on, in order
    swallowed, \* history: the exceptions an `except Exception: pass` has eaten
    snap       \* history: the document after the first run of the property passes

vars == <<body, styles, sections, cfg, pc, plist, idx, in_block, changed, in_refs,
          count, fig_n, tab_n, it, i, nextid, err, ui, doc0, trace, visited,
          swallowed, snap>>

-----------------------------------------------------------------------------
(* Bounds of the model.                                                    *)

\* The longest body (block elements) a run starts from.
MaxBody == 3
\* The most rows a table of the input has.
MaxRows == 2

-----------------------------------------------------------------------------
(* Text: sequences of characters.                                          *)

OPEN_LQ == <<"[","[","C","I","T","A","C","A","O","_","L","O","N","G","A","]","]">>
CLOSE_LQ == <<"[","[","/","C","I","T","A","C","A","O","_","L","O","N","G","A","]","]">>
OPEN_REFS == <<"[","[","R","E","F","E","R","E","N","C","I","A","S","]","]">>
CLOSE_REFS == <<"[","[","/","R","E","F","E","R","E","N","C","I","A","S","]","]">>

\* s.startswith(t)
StartsWith(s, t) == Len(t) <= Len(s) /\ SubSeq(s, 1, Len(t)) = t

\* t in s
Contains(s, t) == \E k \in 0..(Len(s) - Len(t)) : SubSeq(s, k + 1, k + Len(t)) = t

\* s.replace(t, ''): the occurrences of t, found left to right without overlap, removed.
RECURSIVE Replace(_, _)
Replace(s, t) ==
    IF Len(s) < Len(t) THEN s
    ELSE IF StartsWith(s, t) THEN Replace(SubSeq(s, Len(t) + 1, Len(s)), t)
    ELSE <<Head(s)>> \o Replace(Tail(s), t)

LowerLetters == <<"a","b","c","d","e","f","g","h","i","j","k","l","m",
                  "n","o","p","q","r","s","t","u","v","w","x","y","z">>
UpperLetters == <<"A","B","C","D","E","F","G","H","I","J","K","L","M",
                  "N","O","P","Q","R","S","T","U","V","W","X","Y","Z">>

UpperChar(c) ==
    IF \E k \in 1..Len(LowerLetters) : LowerLetters[k] = c
    THEN UpperLetters[CHOOSE k \in 1..Len(LowerLetters) : LowerLetters[k] = c]
    ELSE c

\* s.upper()
Upper(s) == [k \in 1..Len(s) |-> UpperChar(s[k])]

Whitespace == {" ", "\t", "\n"}

RECURSIVE LStrip(_)
LStrip(s) == IF s # <<>> /\ Head(s) \in Whitespace THEN LStrip(Tail(s)) ELSE s

RECURSIVE RStrip(_)
RStrip(s) ==
    IF s # <<>> /\ s[Len(s)] \in Whitespace THEN RStrip(SubSeq(s, 1, Len(s) - 1)) ELSE s

\* s.strip()
Strip(s) == RStrip(LStrip(s))

-----------------------------------------------------------------------------
(* The document tree.                                                      *)

\* A paragraph_format (and alignment) with nothing set.
NoFmt ==
    [alignment |-> "unset", first_line_indent |-> "unset", left_indent |-> "unset",
     right_indent |-> "unset", line_spacing |-> "unset", space_before |-> "unset",
     space_after |-> "unset"]

\* A paragraph formatted by hand in the input document.
HandFmt ==
    [alignment |-> "RIGHT", first_line_indent |-> "2cm", left_indent |-> "1cm",
     right_indent |-> "1cm", line_spacing |-> "2.0", space_before |-> "6pt",
     space_after |-> "12pt"]

\* A top-level <w:p>: its text (the runs' text joined), style, format, and whether a
\* run holds a <w:drawing>.
Para(id, text, style, fmt, drawing) ==
    [id |-> id, kind |-> "p", text |-> text, style |-> style, fmt |-> fmt,
     drawing |-> drawing, rows |-> <<>>, layout |-> 0]

\* A top-level <w:tbl>: per row the number of <w:cantSplit> and <w:tblHeader>
\* children of its <w:trPr>, and the number of <w:tblLayout> children of <w:tblPr>.
Tbl(id, rows, layout) ==
    [id |-> id, kind |-> "tbl", text |-> <<>>, style |-> "", fmt |-> NoFmt,
     drawing |-> FALSE, rows |-> rows, layout |-> layout]

\* doc.paragraphs: the body's w:p children, as positions in the body.
ParaPos(b) == SelectSeq([k \in 1..Len(b) |-> k], LAMBDA k : b[k].kind = "p")

\* doc.paragraphs, as element identities.
ParaIds(b) == [k \in 1..Len(ParaPos(b)) |-> b[ParaPos(b)[k]].id]

\* doc.tables: the body's w:tbl children, as positions in the body.
TablePos(b) == SelectSeq([k \in 1..Len(b) |-> k], LAMBDA k : b[k].kind = "tbl")

\* The position in the body of the element with identity id (0: not in the body).
PosOf(b, id) ==
    IF \E k \in 1..Len(b) : b[k].id = id
    THEN CHOOSE k \in 1..Len(b) : b[k].id = id
    ELSE 0

\* The ids of a body, in order.
Ids(b) == [k \in 1..Len(b) |-> b[k].id]

\* Paragraph.text = t: the paragraph's runs are cleared (a drawing goes with them)
\* and one run holding t is added.
SetText(p, t) == [p EXCEPT !.text = t, !.drawing = FALSE]

\* The font and paragraph format of a style with nothing set but the size.
StyleOf(size) ==
    [font_name |-> "unset", font_size |-> size, line_spacing |-> "unset",
     space_before |-> "unset", space_after |-> "unset", first_line_indent |-> "unset"]

\* One section with Word's default margins and a footer with no paragraph.
Section0 ==
    [top_margin |-> "2.5cm", left_margin |-> "3cm", right_margin |-> "3cm",
     bottom_margin |-> "2.5cm",
     footer |-> [paragraphs |-> 0, alignment |-> "unset", fields |-> 0]]

\* `p.style.name.lower().startswith("heading")`, over the style names of the model.
StartsWithHeading(name) == name \in {"Heading 1", "Heading 2", "Heading 3", "Heading 4"}

-----------------------------------------------------------------------------
(* Long quotations: apply_long_quote_style, process_long_quote_markers.    *)

\* apply_long_quote_style, the paragraph's own properties.
LongQuoteFmt(f) ==
    [f EXCEPT !.first_line_indent = "0cm", !.left_indent = "4cm",
              !.right_indent = "0cm", !.line_spacing = "1.0", !.alignment = "JUSTIFY"]

\* apply_long_quote_style, `paragraph.style.font.size = Pt(10)`: the size is set on
\* the style object the paragraph refers to, which every paragraph of that style shares.
LongQuoteStyles(st, p) ==
    IF p.style \in DOMAIN st THEN [st EXCEPT ![p.style].font_size = "10pt"] ELSE st

\* The body of the for-loop of process_long_quote_markers for one paragraph p with
\* in_block = inb: the paragraph and the flag after it, and whether
\* apply_long_quote_style ran (changed += 1).
LQParagraph_CloseNotStyled(p, inb) ==
    IF Contains(p.text, OPEN_LQ)
    THEN [para |-> [SetText(p, Replace(p.text, OPEN_LQ)) EXCEPT !.fmt = LongQuoteFmt(@)],
          flag |-> TRUE, styled |-> TRUE]
    ELSE IF Contains(p.text, CLOSE_LQ)
    THEN [para |-> SetText(p, Replace(p.text, CLOSE_LQ)), flag |-> FALSE, styled |-> FALSE]
    ELSE IF inb
    THEN [para |-> [p EXCEPT !.fmt = LongQuoteFmt(@)], flag |-> inb, styled |-> TRUE]
    ELSE [para |-> p, flag |-> inb, styled |-> FALSE]

LQParagraph_OpenToggles(p, inb) ==
    IF Contains(p.text, OPEN_LQ)
    THEN [para |-> [SetText(p, Replace(p.text, OPEN_LQ)) EXCEPT !.fmt = LongQuoteFmt(@)],
          flag |-> ~inb, styled |-> TRUE]
    ELSE IF Contains(p.text, CLOSE_LQ)
    THEN [para |-> [SetText(p, Replace(p.text, CLOSE_LQ)) EXCEPT !.fmt = LongQuoteFmt(@)],
          flag |-> FALSE, styled |-> TRUE]
    ELSE IF inb
    THEN [para |-> [p EXCEPT !.fmt = LongQuoteFmt(@)], flag |-> inb, styled |-> TRUE]
    ELSE [para |-> p, flag |-> inb, styled |-> FALSE]

LQParagraph(p, inb) ==
    IF Contains(p.text, OPEN_LQ)
    THEN [para |-> [SetText(p, Replace(p.text, OPEN_LQ)) EXCEPT !.fmt = LongQuoteFmt(@)],
          flag |-> TRUE, styled |-> TRUE]
    ELSE IF Contains(p.text, CLOSE_LQ)
    THEN [para |-> [SetText(p, Replace(p.text, CLOSE_LQ)) EXCEPT !.fmt = LongQuoteFmt(@)],
          flag |-> FALSE, styled |-> TRUE]
    ELSE IF inb
    THEN [para |-> [p EXCEPT !.fmt = LongQuoteFmt(@)], flag |-> inb, styled |-> TRUE]
    ELSE [para |-> p, flag |-> inb, styled |-> FALSE]

\* process_long_quote_markers is called: in_block = False, changed = 0, and the
\* for-loop takes the list doc.paragraphs.
LQBegin ==
    /\ pc = "long_quote"
    /\ pc' = "long_quote_loop"
    /\ in_block' = FALSE
    /\ changed' = 0
    /\ plist' = ParaIds(body)
    /\ idx' = 1
    /\ trace' = Append(trace, "process_long_quote_markers")
    /\ UNCHANGED <<body, styles, sections, cfg, in_refs, count, fig_n, tab_n, it, i,
                   nextid, err, ui, doc0, visited, swallowed, snap>>

\* One iteration of `for p in doc.paragraphs`.
LQStep ==
    /\ pc = "long_quote_loop"
    /\ idx <= Len(plist)
    /\ LET k == PosOf(body, plist[idx])
           r == LQParagraph(body[k], in_block)
       IN  /\ body' = [body EXCEPT ![k] = r.para]
           /\ styles' = IF r.styled THEN LongQuoteStyles(styles, body[k]) ELSE styles
           /\ in_block' = r.flag
           /\ changed' = IF r.styled THEN changed + 1 ELSE changed
    /\ idx' = idx + 1
    /\ UNCHANGED <<sections, cfg, pc, plist, in_refs, count, fig_n, tab_n, it, i,
                   nextid, err, ui, doc0, trace, visited, swallowed, snap>>

\* `return changed`: control goes on at ret.
LQReturn(ret) ==
    /\ pc = "long_quote_loop"
    /\ idx > Len(plist)
    /\ pc' = ret
    /\ UNCHANGED <<body, styles, sections, cfg, plist, idx, in_block, changed, in_refs,
                   count, fig_n, tab_n, it, i, nextid, err, ui, doc0, trace, visited,
                   swallowed, snap>>

-----------------------------------------------------------------------------
(* The reference list: apply_references_block_format.                      *)

\* The properties apply_references_block_format sets, with its default arguments
\* first_line_hanging_cm=1.25, line_spacing=1.0, space_between_pts=6.
RefsFmt(f) ==
    [f EXCEPT !.first_line_indent = "0cm", !.left_indent = "1.25cm",
              !.line_spacing = "1.0", !.space_after = "6pt", !.alignment = "JUSTIFY"]

\* The body of the for-loop of apply_references_block_format for one paragraph p
\* with in_refs = inr.  `t` is the text read before the tokens are stripped.
RefsParagraph_OnlyMarkers(p, inr) ==
    LET t == p.text
        q == IF Contains(t, OPEN_REFS) THEN SetText(p, Replace(t, OPEN_REFS))
             ELSE IF Contains(t, CLOSE_REFS) THEN SetText(p, Replace(t, CLOSE_REFS))
             ELSE p
        f == IF Contains(t, OPEN_REFS) THEN TRUE
             ELSE IF Contains(t, CLOSE_REFS) THEN FALSE
             ELSE inr
    IN  IF Contains(t, OPEN_REFS) \/ Contains(t, CLOSE_REFS)
        THEN [para |-> [q EXCEPT !.fmt = RefsFmt(@)], flag |-> f, styled |-> TRUE]
        ELSE [para |-> q, flag |-> f, styled |-> FALSE]

RefsParagraph(p, inr) ==
    LET t == p.text
        q == IF Contains(t, OPEN_REFS) THEN SetText(p, Replace(t, OPEN_REFS))
             ELSE IF Contains(t, CLOSE_REFS) THEN SetText(p, Replace(t, CLOSE_REFS))
             ELSE p
        f == IF Contains(t, OPEN_REFS) THEN TRUE
             ELSE IF Contains(t, CLOSE_REFS) THEN FALSE
             ELSE inr
    IN  IF f \/ Contains(t, CLOSE_REFS)
        THEN [para |-> [q EXCEPT !.fmt = RefsFmt(@)], flag |-> f, styled |-> TRUE]
        ELSE [para |-> q, flag |-> f, styled |-> FALSE]

\* apply_references_block_format is called: in_refs = False, count = 0.
RefsBegin ==
    /\ pc = "refs"
    /\ pc' = "refs_loop"
    /\ in_refs' = FALSE
    /\ count' = 0
    /\ plist' = ParaIds(body)
    /\ idx' = 1
    /\ trace' = Append(trace, "apply_references_block_format")
    /\ UNCHANGED <<body, styles, sections, cfg, in_block, changed, fig_n, tab_n, it, i,
                   nextid, err, ui, doc0, visited, swallowed, snap>>

\* One iteration of `for p in doc.paragraphs`.
RefsStep ==
    /\ pc = "refs_loop"
    /\ idx <= Len(plist)
    /\ LET k == PosOf(body, plist[idx])
           r == RefsParagraph(body[k], in_refs)
       IN  /\ body' = [body EXCEPT ![k] = r.para]
           /\ in_refs' = r.flag
           /\ count' = IF r.styled THEN count + 1 ELSE count
    /\ idx' = idx + 1
    /\ UNCHANGED <<styles, sections, cfg, pc, plist, in_block, changed, fig_n, tab_n,
                   it, i, nextid, err, ui, doc0, trace, visited, swallowed, snap>>

\* `return count`: control goes on at ret.
RefsReturn(ret) ==
    /\ pc = "refs_loop"
    /\ idx > Len(plist)
    /\ pc' = ret
    /\ UNCHANGED <<body, styles, sections, cfg, plist, idx, in_block, changed, in_refs,
                   count, fig_n, tab_n, it, i, nextid, err, ui, doc0, trace, visited,
                   swallowed, snap>>

-----------------------------------------------------------------------------
(* The whole-document property passes.                                     *)

\* set_page_margins with its default arguments, for one section.
SectionMargins(sec) ==
    [sec EXCEPT !.top_margin = "3cm", !.left_margin = "3cm",
                !.right_margin = "2cm", !.bottom_margin = "2cm"]

\* set_page_margins(doc)
SetPageMargins(ret) ==
    /\ pc = "margins"
    /\ pc' = ret
    /\ sections' = [k \in 1..Len(sections) |-> SectionMargins(sections[k])]
    /\ trace' = Append(trace, "set_page_margins")
    /\ UNCHANGED <<body, styles, cfg, plist, idx, in_block, changed, in_refs, count,
                   fig_n, tab_n, it, i, nextid, err, ui, doc0, visited, swallowed, snap>>

\* What configure_default_style(doc, line_spacing=1.5, first_line_indent_cm=indent)
\* makes of the style Normal.
NormalStyle(indent) ==
    [font_name |-> "Times New Roman", font_size |-> "12pt", line_spacing |-> "1.5",
     space_before |-> "0pt", space_after |-> "0pt", first_line_indent |-> indent]

\* configure_default_style on a document that has the style Normal.
ConfigureDefaultStyle(ret) ==
    /\ pc = "default_style"
    /\ "Normal" \in DOMAIN styles
    /\ pc' = ret
    /\ styles' = [styles EXCEPT !["Normal"] = NormalStyle(cfg.first_line_indent_cm)]
    /\ trace' = Append(trace, "configure_default_style")
    /\ UNCHANGED <<body, sections, cfg, plist, idx, in_block, changed, in_refs, count,
                   fig_n, tab_n, it, i, nextid, err, ui, doc0, visited, swallowed, snap>>

\* configure_default_style on a document with no style named Normal:
\* doc.styles["Normal"] raises KeyError.
ConfigureDefaultStyleRaises ==
    /\ pc = "default_style"
    /\ "Normal" \notin DOMAIN styles
    /\ pc' = "raised"
    /\ err' = "KeyError"
    /\ trace' = Append(trace, "configure_default_style")
    /\ UNCHANGED <<body, styles, sections, cfg, plist, idx, in_block, changed, in_refs,
                   count, fig_n, tab_n, it, i, nextid, ui, doc0, visited, swallowed,
                   snap>>

\* The body of the for-loop of style_all_paragraphs for one paragraph.
StyleParagraph_TogglesAlignment(p, justify, indent) ==
    IF StartsWithHeading(p.style)
    THEN [p EXCEPT !.fmt.alignment = "LEFT", !.fmt.first_line_indent = "0cm",
                   !.fmt.space_before = "0pt", !.fmt.space_after = "0pt"]
    ELSE [p EXCEPT !.fmt.alignment = IF ~justify THEN @
                                     ELSE IF @ = "JUSTIFY" THEN "LEFT" ELSE "JUSTIFY",
                   !.fmt.first_line_indent = indent,
                   !.fmt.space_before = "0pt", !.fmt.space_after = "0pt"]

StyleParagraph(p, justify, indent) ==
    IF StartsWithHeading(p.style)
    THEN [p EXCEPT !.fmt.alignment = "LEFT", !.fmt.first_line_indent = "0cm",
                   !.fmt.space_before = "0pt", !.fmt.space_after = "0pt"]
    ELSE [p EXCEPT !.fmt.alignment = IF justify THEN "JUSTIFY" ELSE @,
                   !.fmt.first_line_indent = indent,
                   !.fmt.space_before = "0pt", !.fmt.space_after = "0pt"]

\* style_all_paragraphs(doc, justify, first_line_indent_cm)
StyleAllParagraphs(ret) ==
    /\ pc = "style_all"
    /\ pc' = ret
    /\ body' = [k \in 1..Len(body) |->
                   IF body[k].kind = "p"
                   THEN StyleParagraph(body[k], cfg.justify, cfg.first_line_indent_cm)
                   ELSE body[k]]
    /\ trace' = Append(trace, "style_all_paragraphs")
    /\ UNCHANGED <<styles, sections, cfg, plist, idx, in_block, changed, in_refs, count,
                   fig_n, tab_n, it, i, nextid, err, ui, doc0, visited, swallowed, snap>>

\* heading_map[name], for a name in heading_map.
HeadingCaps(name, c) ==
    \/ name = "Heading 1" /\ c.h1_caps
    \/ name = "Heading 2" /\ c.h2_caps
    \/ name = "Heading 3" /\ c.h3_caps

\* The body of the for-loop of configure_heading_styles for one paragraph:
\* uppercase_heading_runs sets run.text of every run, which replaces the run's
\* content (a drawing in it goes away), then left alignment and no indent.
HeadingParagraph(p, c) ==
    IF HeadingCaps(p.style, c)
    THEN [p EXCEPT !.text = Upper(@), !.drawing = FALSE,
                   !.fmt.alignment = "LEFT", !.fmt.first_line_indent = "0cm"]
    ELSE p

\* configure_heading_styles(doc, h1_caps, h2_caps, h3_caps)
ConfigureHeadingStyles(ret) ==
    /\ pc = "headings"
    /\ pc' = ret
    /\ body' = [k \in 1..Len(body) |->
                   IF body[k].kind = "p" THEN HeadingParagraph(body[k], cfg) ELSE body[k]]
    /\ trace' = Append(trace, "configure_heading_styles")
    /\ UNCHANGED <<styles, sections, cfg, plist, idx, in_block, changed, in_refs, count,
                   fig_n, tab_n, it, i, nextid, err, ui, doc0, visited, swallowed, snap>>

\* The body of the for-loop of center_paragraphs_with_drawings for one paragraph.
CenterParagraph(p) ==
    IF p.drawing
    THEN [p EXCEPT !.fmt.alignment = "CENTER", !.fmt.first_line_indent = "0cm"]
    ELSE p

\* center_paragraphs_with_drawings(doc)
CenterParagraphsWithDrawings(ret) ==
    /\ pc = "center"
    /\ pc' = ret
    /\ body' = [k \in 1..Len(body) |->
                   IF body[k].kind = "p" THEN CenterParagraph(body[k]) ELSE body[k]]
    /\ trace' = Append(trace, "center_paragraphs_with_drawings")
    /\ UNCHANGED <<styles, sections, cfg, plist, idx, in_block, changed, in_refs, count,
                   fig_n, tab_n, it, i, nextid, err, ui, doc0, visited, swallowed, snap>>

\* add_page_number_to_footer for one section, position="right": the footer's first
\* paragraph (added when there is none) is right-aligned and gets one more run
\* holding a PAGE field.
FooterWithPageNumber(sec) ==
    [sec EXCEPT !.footer.paragraphs = IF @ = 0 THEN 1 ELSE @,
                !.footer.alignment = "RIGHT",
                !.footer.fields = @ + 1]

\* add_page_number_to_footer(doc)
AddPageNumberToFooter(ret) ==
    /\ pc = "footer"
    /\ pc' = ret
    /\ sections' = [k \in 1..Len(sections) |-> FooterWithPageNumber(sections[k])]
    /\ trace' = Append(trace, "add_page_number_to_footer")
    /\ UNCHANGED <<body, styles, cfg, plist, idx, in_block, changed, in_refs, count,
                   fig_n, tab_n, it, i, nextid, err, ui, doc0, visited, swallowed, snap>>

-----------------------------------------------------------------------------
(* Tables: _set_row_cant_split, prevent_table_row_split_and_repeat_header. *)

\* _set_row_cant_split(row): one more <w:cantSplit/> is appended to the row's trPr.
SetRowCantSplit(row) == [row EXCEPT !.cant = @ + 1]

\* The for-loop of prevent_table_row_split_and_repeat_header over the rows (r is
\* enumerate's i + 1): every row gets a cantSplit, row 0 also a tblHeader.
HardenRows_HeaderOnEveryRow(rows) ==
    [r \in 1..Len(rows) |-> [SetRowCantSplit(rows[r]) EXCEPT !.hdr = @ + 1]]

HardenRows(rows) ==
    [r \in 1..Len(rows) |->
        IF r = 1 THEN [SetRowCantSplit(rows[r]) EXCEPT !.hdr = @ + 1]
        ELSE SetRowCantSplit(rows[r])]

\* prevent_table_row_split_and_repeat_header(table): the rows, then one more
\* <w:tblLayout w:type="fixed"/> appended to tblPr.
HardenTable(t) == [t EXCEPT !.rows = HardenRows(@), !.layout = @ + 1]

\* `for t in doc.tables:` of apply_abnt_formatting takes the list doc.tables.
TablesBegin ==
    /\ pc = "tables"
    /\ pc' = "tables_loop"
    /\ plist' = [k \in 1..Len(TablePos(body)) |-> body[TablePos(body)[k]].id]
    /\ idx' = 1
    /\ trace' = Append(trace, "prevent_table_row_split_and_repeat_header")
    /\ UNCHANGED <<body, styles, sections, cfg, in_block, changed, in_refs, count,
                   fig_n, tab_n, it, i, nextid, err, ui, doc0, visited, swallowed, snap>>

\* One iteration: prevent_table_row_split_and_repeat_header(t).
TablesStep ==
    /\ pc = "tables_loop"
    /\ idx <= Len(plist)
    /\ body' = [body EXCEPT ![PosOf(body, plist[idx])] = HardenTable(@)]
    /\ idx' = idx + 1
    /\ UNCHANGED <<styles, sections, cfg, pc, plist, in_block, changed, in_refs, count,
                   fig_n, tab_n, it, i, nextid, err, ui, doc0, trace, visited,
                   swallowed, snap>>

\* prevent_table_row_split_and_repeat_header(t) when the row loop raises at row r
\* (enumerate's i + 1) in `stage`: the rows before r are done, row r has its
\* cantSplit only if the failure is in appending the tblHeader, and neither the
\* later rows nor the layout are reached (the loop has no try/except).
HardenTableFails(t, r, stage) ==
    [t EXCEPT !.rows = [q \in 1..Len(@) |->
                           IF q < r THEN HardenRows(@)[q]
                           ELSE IF q = r /\ stage = "tblHeader" THEN SetRowCantSplit(@[q])
                           ELSE @[q]]]

\* The stages of the loop body at row r where an exception can come from.
RowStages(r) == IF r = 1 THEN {"cantSplit", "tblHeader"} ELSE {"cantSplit"}

\* One iteration whose call raises in the row loop: the exception leaves
\* apply_abnt_formatting.
TablesStepRaises ==
    /\ pc = "tables_loop"
    /\ idx <= Len(plist)
    /\ LET k == PosOf(body, plist[idx])
       IN  \E r \in 1..Len(body[k].rows) :
           \E stage \in RowStages(r) :
               body' = [body EXCEPT ![k] = HardenTableFails(@, r, stage)]
    /\ err' = "RowError"
    /\ pc' = "raised"
    /\ UNCHANGED <<styles, sections, cfg, plist, idx, in_block, changed, in_refs, count,
                   fig_n, tab_n, it, i, nextid, ui, doc0, trace, visited, swallowed,
                   snap>>

\* The loop over doc.tables is over: control goes on at ret.
TablesReturn(ret) ==
    /\ pc = "tables_loop"
    /\ idx > Len(plist)
    /\ pc' = ret
    /\ UNCHANGED <<body, styles, sections, cfg, plist, idx, in_block, changed, in_refs,
                   count, fig_n, tab_n, it, i, nextid, err, ui, doc0, trace, visited,
                   swallowed, snap>>

-----------------------------------------------------------------------------
(* Blank paragraphs: remove_extra_blank_lines.                             *)

\* `not doc.paragraphs[k].text.strip()` for paragraph p.
IsBlank(p) == Strip(p.text) = <<>>

\* The body without the element at position k: p.getparent().remove(p).
RemoveAt(b, k) == SubSeq(b, 1, k - 1) \o SubSeq(b, k + 1, Len(b))

\* The paragraphs doc.paragraphs[i] and doc.paragraphs[i+1] (i is 0-based).
ParaAt(b, n) == b[ParaPos(b)[n + 1]]

\* remove_extra_blank_lines is called: i = 0.
BlankBegin ==
    /\ pc = "blank"
    /\ pc' = "blank_loop"
    /\ i' = 0
    /\ trace' = Append(trace, "remove_extra_blank_lines")
    /\ UNCHANGED <<body, styles, sections, cfg, plist, idx, in_block, changed, in_refs,
                   count, fig_n, tab_n, it, nextid, err, ui, doc0, visited, swallowed,
                   snap>>

\* An iteration whose two paragraphs are blank and whose removal succeeds:
\* `continue` with i unchanged.
BlankRemove ==
    /\ pc = "blank_loop"
    /\ i < Len(ParaPos(body)) - 1
    /\ IsBlank(ParaAt(body, i)) /\ IsBlank(ParaAt(body, i + 1))
    /\ body' = RemoveAt(body, ParaPos(body)[i + 2])
    /\ UNCHANGED <<styles, sections, cfg, pc, plist, idx, in_block, changed, in_refs,
                   count, fig_n, tab_n, it, i, nextid, err, ui, doc0, trace, visited,
                   swallowed, snap>>

BlankRemoveRaises_NoAdvance ==
    /\ pc = "blank_loop"
    /\ i < Len(ParaPos(body)) - 1
    /\ IsBlank(ParaAt(body, i)) /\ IsBlank(ParaAt(body, i + 1))
    /\ swallowed' = Append(swallowed, ParaAt(body, i + 1).id)
    /\ UNCHANGED <<body, styles, sections, cfg, pc, plist, idx, in_block, changed,
                   in_refs, count, fig_n, tab_n, it, i, nextid, err, ui, doc0, trace,
                   visited, snap>>

\* An iteration whose two paragraphs are blank and whose removal raises: the
\* exception is passed over (`except Exception: pass`) and i += 1.
BlankRemoveRaises ==
    /\ pc = "blank_loop"
    /\ i < Len(ParaPos(body)) - 1
    /\ IsBlank(ParaAt(body, i)) /\ IsBlank(ParaAt(body, i + 1))
    /\ swallowed' = Append(swallowed, ParaAt(body, i + 1).id)
    /\ i' = i + 1
    /\ UNCHANGED <<body, styles, sections, cfg, pc, plist, idx, in_block, changed,
                   in_refs, count, fig_n, tab_n, it, nextid, err, ui, doc0, trace,
                   visited, snap>>

\* An iteration whose two paragraphs are not both blank: i += 1.
BlankAdvance ==
    /\ pc = "blank_loop"
    /\ i < Len(ParaPos(body)) - 1
    /\ ~(IsBlank(ParaAt(body, i)) /\ IsBlank(ParaAt(body, i + 1)))
    /\ i' = i + 1
    /\ UNCHANGED <<body, styles, sections, cfg, pc, plist, idx, in_block, changed,
                   in_refs, count, fig_n, tab_n, it, nextid, err, ui, doc0, trace,
                   visited, swallowed, snap>>

\* The while condition fails: control goes on at ret.
BlankReturn(ret) ==
    /\ pc = "blank_loop"
    /\ ~(i < Len(ParaPos(body)) - 1)
    /\ pc' = ret
    /\ UNCHANGED <<body, styles, sections, cfg, plist, idx, in_block, changed, in_refs,
                   count, fig_n, tab_n, it, i, nextid, err, ui, doc0, trace, visited,
                   swallowed, snap>>

-----------------------------------------------------------------------------
(* Captions: add_caption_after_paragraph, ensure_captions.                 *)

\* A body child that is neither <w:p> nor <w:tbl>, named by its tag.
Other(id, tag) ==
    [id |-> id, kind |-> tag, text |-> <<>>, style |-> "", fmt |-> NoFmt,
     drawing |-> FALSE, rows |-> <<>>, layout |-> 0]

\* The body with element e put in at position k.
InsertAt(b, k, e) == SubSeq(b, 1, k - 1) \o <<e>> \o SubSeq(b, k, Len(b))

DigitChars == <<"0", "1", "2", "3", "4", "5", "6", "7", "8", "9">>

\* str(n) of an f-string
RECURSIVE Str(_)
Str(n) ==
    IF n < 10 THEN <<DigitChars[n + 1]>>
    ELSE Str(n \div 10) \o <<DigitChars[(n % 10) + 1]>>

\* f"Figura {fig_n} - Descricao da figura" (the source's dash and accented letters
\* are written in ASCII here)
FigCaptionText(n) ==
    <<"F","i","g","u","r","a"," ">> \o Str(n)
    \o <<" ","-"," ","D","e","s","c","r","i","c","a","o"," ","d","a"," ",
         "f","i","g","u","r","a">>

\* add_caption_after_paragraph: p.insert_paragraph_after(text) makes a paragraph of
\* the default style right after p; it is centered with a first-line indent of 0.
CaptionPara(id, text) ==
    Para(id, text, "Normal",
         [NoFmt EXCEPT !.alignment = "CENTER", !.first_line_indent = "0cm"], FALSE)

\* `first_p._element.__class__('w:p')`: calling the element class CT_P makes an
\* element whose tag is the class name, CT_P, with the text 'w:p' (lxml's
\* ElementBase constructor); it is no <w:p>, so doc.paragraphs never holds it and
\* p_obj_above / p_obj_below stay None.
NewCaptionElement(id) == Other(id, "CT_P")

\* The element lxml's child iterator stores as the next one when it yields the
\* element at position k: k's next sibling at that moment (0: none).
NextSibling_SkipsOne(b, k) == IF k + 1 < Len(b) THEN b[k + 2].id ELSE 0

NextSibling(b, k) == IF k < Len(b) THEN b[k + 1].id ELSE 0

\* ensure_captions is called: the counters are 0 and iter(doc.element.body) holds
\* the first child.
CaptionsBegin ==
    /\ pc = "captions"
    /\ pc' = "captions_loop"
    /\ fig_n' = 0
    /\ tab_n' = 0
    /\ it' = IF body = <<>> THEN 0 ELSE body[1].id
    /\ trace' = Append(trace, "ensure_captions")
    /\ UNCHANGED <<body, styles, sections, cfg, plist, idx, in_block, changed, in_refs,
                   count, i, nextid, err, ui, doc0, visited, swallowed, snap>>

\* The loop body on a <w:p>: a caption after it when it holds a drawing and
\* add_fig_captions is set.
WalkParagraph ==
    /\ pc = "captions_loop"
    /\ it # 0
    /\ LET k == PosOf(body, it)
           block == body[k]
       IN  /\ block.kind = "p"
           /\ it' = NextSibling(body, k)
           /\ visited' = Append(visited, block.id)
           /\ IF block.drawing /\ cfg.auto_captions_fig
              THEN /\ fig_n' = fig_n + 1
                   /\ body' = InsertAt(body, k + 1,
                                       CaptionPara(nextid, FigCaptionText(fig_n + 1)))
                   /\ nextid' = nextid + 1
              ELSE UNCHANGED <<fig_n, body, nextid>>
    /\ UNCHANGED <<styles, sections, cfg, pc, plist, idx, in_block, changed, in_refs,
                   count, tab_n, i, err, ui, doc0, trace, swallowed, snap>>

\* The loop body on a <w:p> with a drawing and add_fig_captions, where the Paragraph
\* class of the installed python-docx has no method insert_paragraph_after (its
\* released API has insert_paragraph_before only): fig_n is incremented, then the
\* call in add_caption_after_paragraph raises AttributeError, which leaves
\* ensure_captions.
WalkParagraphRaises ==
    /\ pc = "captions_loop"
    /\ it # 0
    /\ LET k == PosOf(body, it)
       IN  /\ body[k].kind = "p"
           /\ body[k].drawing /\ cfg.auto_captions_fig
           /\ it' = NextSibling(body, k)
           /\ visited' = Append(visited, body[k].id)
    /\ fig_n' = fig_n + 1
    /\ err' = "AttributeError"
    /\ pc' = "raised"
    /\ UNCHANGED <<body, styles, sections, cfg, plist, idx, in_block, changed, in_refs,
                   count, tab_n, i, nextid, ui, doc0, trace, swallowed, snap>>

\* The loop body on a <w:tbl>: the table is hardened; with add_tab_captions and a
\* paragraph in the document, one new element goes before the table and one after.
WalkTable ==
    /\ pc = "captions_loop"
    /\ it # 0
    /\ LET k == PosOf(body, it)
           block == body[k]
           hard == [body EXCEPT ![k] = HardenTable(@)]
       IN  /\ block.kind = "tbl"
           /\ cfg.auto_captions_tab => ParaPos(body) # <<>>
           /\ it' = NextSibling(body, k)
           /\ visited' = Append(visited, block.id)
           /\ IF cfg.auto_captions_tab
              THEN /\ body' = InsertAt(InsertAt(hard, k, NewCaptionElement(nextid)),
                                       k + 2, NewCaptionElement(nextid + 1))
                   /\ nextid' = nextid + 2
                   /\ tab_n' = tab_n + 1
              ELSE /\ body' = hard
                   /\ UNCHANGED <<nextid, tab_n>>
    /\ UNCHANGED <<styles, sections, cfg, pc, plist, idx, in_block, changed, in_refs,
                   count, fig_n, i, err, ui, doc0, trace, swallowed, snap>>

\* The loop body on a <w:tbl> with add_tab_captions in a document with no paragraph:
\* the table is hardened, then `doc.paragraphs[0]` raises IndexError, which leaves
\* ensure_captions.
WalkTableRaises ==
    /\ pc = "captions_loop"
    /\ it # 0
    /\ LET k == PosOf(body, it)
       IN  /\ body[k].kind = "tbl"
           /\ cfg.auto_captions_tab
           /\ ParaPos(body) = <<>>
           /\ it' = NextSibling(body, k)
           /\ visited' = Append(visited, body[k].id)
           /\ body' = [body EXCEPT ![k] = HardenTable(@)]
    /\ err' = "IndexError"
    /\ pc' = "raised"
    /\ UNCHANGED <<styles, sections, cfg, plist, idx, in_block, changed, in_refs, count,
                   fig_n, tab_n, i, nextid, ui, doc0, trace, swallowed, snap>>

\* The loop body on a <w:tbl> whose hardening raises in the row loop: the exception
\* leaves ensure_captions before any caption is inserted.
WalkTableHardenRaises ==
    /\ pc = "captions_loop"
    /\ it # 0
    /\ LET k == PosOf(body, it)
       IN  /\ body[k].kind = "tbl"
           /\ it' = NextSibling(body, k)
           /\ visited' = Append(visited, body[k].id)
           /\ \E r \in 1..Len(body[k].rows) :
              \E stage \in RowStages(r) :
                  body' = [body EXCEPT ![k] = HardenTableFails(@, r, stage)]
    /\ err' = "RowError"
    /\ pc' = "raised"
    /\ UNCHANGED <<styles, sections, cfg, plist, idx, in_block, changed, in_refs, count,
                   fig_n, tab_n, i, nextid, ui, doc0, trace, swallowed, snap>>

\* The loop body on any other child (<w:sectPr>, ...): nothing.
WalkOther ==
    /\ pc = "captions_loop"
    /\ it # 0
    /\ LET k == PosOf(body, it)
       IN  /\ body[k].kind \notin {"p", "tbl"}
           /\ it' = NextSibling(body, k)
           /\ visited' = Append(visited, body[k].id)
    /\ UNCHANGED <<body, styles, sections, cfg, pc, plist, idx, in_block, changed,
                   in_refs, count, fig_n, tab_n, i, nextid, err, ui, doc0, trace,
                   swallowed, snap>>

\* The iterator is exhausted: control goes on at ret.
CaptionsReturn(ret) ==
    /\ pc = "captions_loop"
    /\ it = 0
    /\ pc' = ret
    /\ UNCHANGED <<body, styles, sections, cfg, plist, idx, in_block, changed, in_refs,
                   count, fig_n, tab_n, it, i, nextid, err, ui, doc0, trace, visited,
                   swallowed, snap>>

-----------------------------------------------------------------------------
(* Starting states.                                                        *)

\* The arguments the Streamlit page passes with its checkboxes as first shown.
UiDefaults ==
    [h1_caps |-> TRUE, h2_caps |-> TRUE, h3_caps |-> TRUE, justify |-> TRUE,
     footer_page_numbers |-> TRUE, first_line_indent_cm |-> "1.25cm",
     center_images |-> TRUE, auto_captions_fig |-> FALSE, auto_captions_tab |-> FALSE,
     format_refs_block |-> TRUE]

\* The styles of a document made from Word's default template.
Styles0 ==
    [n \in {"Normal", "Heading 1", "Heading 4"} |->
        IF n = "Normal" THEN StyleOf("11pt")
        ELSE IF n = "Heading 1" THEN StyleOf("16pt") ELSE StyleOf("unset")]

\* A run starts at statement `start` on the document (b, st, sec) with arguments c.
StartAt(start, b, st, sec, c) ==
    /\ body = b
    /\ styles = st
    /\ sections = sec
    /\ cfg = c
    /\ pc = start
    /\ plist = <<>>
    /\ idx = 1
    /\ in_block = FALSE
    /\ changed = 0
    /\ in_refs = FALSE
    /\ count = 0
    /\ fig_n = 0
    /\ tab_n = 0
    /\ it = 0
    /\ i = 0
    /\ nextid = Len(b) + 1
    /\ err = "none"
    /\ ui = "idle"
    /\ doc0 = [body |-> b, styles |-> st, sections |-> sec]
    /\ trace = <<>>
    /\ visited = <<>>
    /\ swallowed = <<>>
    /\ snap = <<>>

\* The tokens of the two region kinds.
OpenTok(kind) == IF kind = "lq" THEN OPEN_LQ ELSE OPEN_REFS
CloseTok(kind) == IF kind = "lq" THEN CLOSE_LQ ELSE CLOSE_REFS

\* A piece of paragraph text: "O" the open token, "C" the close token, "N" an open
\* token typed inside another one, anything else the character itself.
Piece(kind, c) ==
    IF c = "O" THEN OpenTok(kind)
    ELSE IF c = "C" THEN CloseTok(kind)
    ELSE IF c = "N" THEN SubSeq(OpenTok(kind), 1, 2) \o OpenTok(kind)
                         \o SubSeq(OpenTok(kind), 3, Len(OpenTok(kind)))
    ELSE <<c>>

RECURSIVE Render(_, _)
Render(kind, shape) ==
    IF shape = <<>> THEN <<>> ELSE Piece(kind, Head(shape)) \o Render(kind, Tail(shape))

\* The paragraph texts a region scan is started on: plain text, text after an open
\* token, text before a close token, both tokens around text, a nested open token.
RegionShapes == {<<"a">>, <<"O", "a">>, <<"a", "C">>, <<"O", "a", "C">>, <<"N">>}

\* A region scan starts on any sequence of up to MaxBody paragraphs, each of
\* style Normal or Heading 1, with the tokens of the scanner that runs.
InitRegion ==
    \E start \in {"long_quote", "refs"} :
    \E n \in 0..MaxBody :
    \E c \in [1..n -> RegionShapes \X {"Normal", "Heading 1"}] :
        StartAt(start,
                [k \in 1..n |->
                    Para(k, Render(IF start = "long_quote" THEN "lq" ELSE "refs", c[k][1]),
                         c[k][2], NoFmt, FALSE)],
                Styles0, <<Section0>>, UiDefaults)

NextRegion ==
    \/ LQBegin
    \/ LQStep
    \/ LQReturn("region_done")
    \/ RefsBegin
    \/ RefsStep
    \/ RefsReturn("region_done")

\* One region scanner run on its own, on any paragraph sequence.
SpecRegion == InitRegion /\ [][NextRegion]_vars

-----------------------------------------------------------------------------
(* prevent_table_row_split_and_repeat_header on its own.                   *)

\* The rows a table of the input may have: none to MaxRows rows, each with or
\* without a cantSplit and a tblHeader already in place.
InputRows ==
    UNION {[1..n -> [cant : {0, 1}, hdr : {0, 1}]] : n \in 0..MaxRows}

InitTable ==
    \E rows \in InputRows :
    \E layout \in {0, 1} :
        StartAt("tables", <<Tbl(1, rows, layout)>>, Styles0, <<Section0>>, UiDefaults)

NextTable ==
    \/ TablesBegin
    \/ TablesStep
    \/ TablesStepRaises
    \/ TablesReturn("table_done")

\* Every table of a document hardened once.
SpecTable == InitTable /\ [][NextTable]_vars

-----------------------------------------------------------------------------
(* remove_extra_blank_lines on its own.                                    *)

\* The block elements of input documents, by name.
Element(id, name) ==
    IF name = "text" THEN Para(id, <<"a">>, "Normal", HandFmt, FALSE)
    ELSE IF name = "empty" THEN Para(id, <<>>, "Normal", NoFmt, FALSE)
    ELSE IF name = "space" THEN Para(id, <<" ">>, "Normal", NoFmt, FALSE)
    ELSE IF name = "image" THEN Para(id, <<>>, "Normal", NoFmt, TRUE)
    ELSE IF name = "heading" THEN Para(id, <<"t">>, "Heading 1", NoFmt, FALSE)
    ELSE IF name = "lower_token"
    THEN Para(id, <<"[","[","c","i","t","a","c","a","o","_","l","o","n","g","a","]","]">>,
              "Heading 1", NoFmt, FALSE)
    ELSE IF name = "open_lq" THEN Para(id, Render("lq", <<"O", "a">>), "Normal", NoFmt, FALSE)
    ELSE IF name = "open_refs"
    THEN Para(id, Render("refs", <<"O", "a">>), "Normal", NoFmt, FALSE)
    ELSE IF name = "table" THEN Tbl(id, <<[cant |-> 0, hdr |-> 0]>>, 0)
    ELSE Other(id, name)

\* The body made of the named elements.
BodyOf(names) == [k \in 1..Len(names) |-> Element(k, names[k])]

\* All sequences of up to n names from the set S.
SeqsUpTo(S, n) == UNION {[1..m -> S] : m \in 0..n}

InitBlank ==
    \E names \in SeqsUpTo({"text", "empty", "space", "image", "table"}, MaxBody) :
        StartAt("blank", BodyOf(names), Styles0, <<Section0>>, UiDefaults)

NextBlank ==
    \/ BlankBegin
    \/ BlankRemove
    \/ BlankRemoveRaises
    \/ BlankAdvance
    \/ BlankReturn("blank_done")

SpecBlank == InitBlank /\ [][NextBlank]_vars

-----------------------------------------------------------------------------
(* ensure_captions on its own.                                             *)

InitWalk ==
    \E names \in SeqsUpTo({"text", "image", "table"}, MaxBody) :
    \E fig, tab \in BOOLEAN :
        StartAt("captions", BodyOf(names \o <<"sectPr">>), Styles0, <<Section0>>,
                [UiDefaults EXCEPT !.auto_captions_fig = fig, !.auto_captions_tab = tab])

NextWalk ==
    \/ CaptionsBegin
    \/ WalkParagraph
    \/ WalkParagraphRaises
    \/ WalkTable
    \/ WalkTableRaises
    \/ WalkTableHardenRaises
    \/ WalkOther
    \/ CaptionsReturn("walk_done")

SpecWalk == InitWalk /\ [][NextWalk]_vars

-----------------------------------------------------------------------------
(* The property passes run twice in succession.                            *)

\* The document as a whole.
Doc == [body |-> body, styles |-> styles, sections |-> sections]

InitProps ==
    \E n \in 0..MaxBody :
    \E c \in [1..n -> {"Normal", "Heading 1", "Heading 4"} \X {NoFmt, HandFmt}] :
    \E justify \in BOOLEAN :
    \E indent \in {"0cm", "1.25cm"} :
        StartAt("margins",
                [k \in 1..n |-> Para(k, <<"a">>, c[k][1], c[k][2], FALSE)],
                Styles0, <<Section0>>,
                [UiDefaults EXCEPT !.justify = justify, !.first_line_indent_cm = indent])

\* The three passes have run once: the document is recorded and they run again.
PropsAgain ==
    /\ pc = "props_ran"
    /\ snap = <<>>
    /\ snap' = <<Doc>>
    /\ pc' = "margins"
    /\ UNCHANGED <<body, styles, sections, cfg, plist, idx, in_block, changed, in_refs,
                   count, fig_n, tab_n, it, i, nextid, err, ui, doc0, trace, visited,
                   swallowed>>

\* The three passes have run twice.
PropsDone ==
    /\ pc = "props_ran"
    /\ snap # <<>>
    /\ pc' = "props_done"
    /\ UNCHANGED <<body, styles, sections, cfg, plist, idx, in_block, changed, in_refs,
                   count, fig_n, tab_n, it, i, nextid, err, ui, doc0, trace, visited,
                   swallowed, snap>>

NextProps ==
    \/ SetPageMargins("default_style")
    \/ ConfigureDefaultStyle("style_all")
    \/ StyleAllParagraphs("props_ran")
    \/ PropsAgain
    \/ PropsDone

SpecProps == InitProps /\ [][NextProps]_vars

-----------------------------------------------------------------------------
(* apply_abnt_formatting, called from the page's button handler.           *)

\* The defaults of apply_abnt_formatting's parameters.
FunctionDefaults ==
    [UiDefaults EXCEPT !.auto_captions_fig = TRUE, !.auto_captions_tab = TRUE]

\* Every checkbox cleared and the indent field at its minimum.
AllOff ==
    [h1_caps |-> FALSE, h2_caps |-> FALSE, h3_caps |-> FALSE, justify |-> FALSE,
     footer_page_numbers |-> FALSE, first_line_indent_cm |-> "0cm",
     center_images |-> FALSE, auto_captions_fig |-> FALSE, auto_captions_tab |-> FALSE,
     format_refs_block |-> FALSE]

\* The page's defaults with the reference-list checkbox cleared.
NoRegions == [UiDefaults EXCEPT !.format_refs_block = FALSE]

\* The styles of a document that has no style named Normal.
StylesNoNormal == [n \in {"Heading 1", "Heading 4"} |-> Styles0[n]]

\* Where control goes after configure_heading_styles, process_long_quote_markers and
\* apply_references_block_format: the `if` statements of apply_abnt_formatting.
AfterRefs == IF cfg.footer_page_numbers THEN "footer" ELSE "blank"
AfterLongQuotes == IF cfg.format_refs_block THEN "refs" ELSE AfterRefs
AfterHeadings_SkipsCentering == "tables"
AfterHeadings == IF cfg.center_images THEN "center" ELSE "tables"

\* apply_abnt_formatting returned: the document is saved to a buffer and the
\* download button is shown.
UiOffer ==
    /\ pc = "return"
    /\ pc' = "end"
    /\ ui' = "offered"
    /\ UNCHANGED <<body, styles, sections, cfg, plist, idx, in_block, changed, in_refs,
                   count, fig_n, tab_n, it, i, nextid, err, doc0, trace, visited,
                   swallowed, snap>>

\* apply_abnt_formatting raised: `except Exception as e: st.error(...)`.
UiExcept ==
    /\ pc = "raised"
    /\ pc' = "end"
    /\ ui' = "error"
    /\ UNCHANGED <<body, styles, sections, cfg, plist, idx, in_block, changed, in_refs,
                   count, fig_n, tab_n, it, i, nextid, err, doc0, trace, visited,
                   swallowed, snap>>

\* The uploaded documents and the arguments of the run.
InputNames == {"text", "empty", "image", "lower_token", "open_lq", "open_refs", "table"}

Init ==
    \E names \in SeqsUpTo(InputNames, MaxBody) :
    \E a \in {<<UiDefaults, Styles0>>, <<FunctionDefaults, Styles0>>, <<AllOff, Styles0>>,
              <<NoRegions, Styles0>>, <<UiDefaults, StylesNoNormal>>} :
        StartAt("margins", BodyOf(names \o <<"sectPr">>), a[2], <<Section0>>, a[1])

Next ==
    \/ SetPageMargins("default_style")
    \/ ConfigureDefaultStyle("style_all")
    \/ ConfigureDefaultStyleRaises
    \/ StyleAllParagraphs("headings")
    \/ ConfigureHeadingStyles(AfterHeadings)
    \/ CenterParagraphsWithDrawings("tables")
    \/ TablesBegin
    \/ TablesStep
    \/ TablesStepRaises
    \/ TablesReturn("captions")
    \/ CaptionsBegin
    \/ WalkParagraph
    \/ WalkParagraphRaises
    \/ WalkTable
    \/ WalkTableRaises
    \/ WalkTableHardenRaises
    \/ WalkOther
    \/ CaptionsReturn("long_quote")
    \/ LQBegin
    \/ LQStep
    \/ LQReturn(AfterLongQuotes)
    \/ RefsBegin
    \/ RefsStep
    \/ RefsReturn(AfterRefs)
    \/ AddPageNumberToFooter("blank")
    \/ BlankBegin
    \/ BlankRemove
    \/ BlankRemoveRaises
    \/ BlankAdvance
    \/ BlankReturn("return")
    \/ UiOffer
    \/ UiExcept

Spec == Init /\ [][Next]_vars

-----------------------------------------------------------------------------
(* Claims about the region scanners (under SpecRegion).                    *)

\* The scanner that ran, from the call history.
RanKind == IF trace # <<>> /\ trace[1] = "process_long_quote_markers" THEN "lq" ELSE "refs"

\* Paragraph m of the input contained the open (close) token of the scanner that ran.
HadOpen(m) == Contains(doc0.body[m].text, OpenTok(RanKind))
HadClose(m) == Contains(doc0.body[m].text, CloseTok(RanKind))

\* Paragraph m carries the paragraph properties of the target style of the scanner
\* that ran, and for a long quotation the 10 pt size on its style.
CarriesRegionFmt(m) ==
    IF RanKind = "lq"
    THEN body[m].fmt = LongQuoteFmt(body[m].fmt)
    ELSE body[m].fmt = RefsFmt(body[m].fmt)

CarriesRegionStyle(m) ==
    /\ CarriesRegionFmt(m)
    /\ RanKind = "lq" => styles[body[m].style].font_size = "10pt"

\* The count the scanner returned.
Returned == IF RanKind = "lq" THEN changed ELSE count

\* Paragraphs a < b hold an open token and the close token that matches it: the
\* first close token after a.
MatchingPair(a, b) ==
    /\ a < b
    /\ HadOpen(a)
    /\ HadClose(b)
    /\ \A m \in (a + 1)..(b - 1) : ~HadClose(m)

\* C1 Region inclusivity: when a scan has returned, for every open-token paragraph
\* and the later paragraph with the matching close token, both and every paragraph
\* between them carry the target style, and the count returned is the number of
\* paragraphs that were styled.
C1_RegionInclusive ==
    pc = "region_done" =>
        /\ \A a, b \in 1..Len(body) :
              MatchingPair(a, b) => \A m \in a..b : CarriesRegionStyle(m)
        /\ Returned = Cardinality({m \in 1..Len(body) : CarriesRegionFmt(m)})

\* A scan returned on [open, plain, close]: three paragraphs styled.
C1_Witness ==
    /\ pc = "region_done"
    /\ Len(body) = 3
    /\ MatchingPair(1, 3)
    /\ ~HadOpen(2)
    /\ Returned = 3

\* The inside-region flag the scanner of section 4.1 holds after paragraph m of the
\* input (before the first paragraph: false).
RECURSIVE InsideAfter(_)
InsideAfter(m) ==
    IF m = 0 THEN FALSE
    ELSE IF HadOpen(m) THEN TRUE
    ELSE IF HadClose(m) THEN FALSE
    ELSE InsideAfter(m - 1)

\* Paragraph m lies outside every marked region and carries no marker token.
OutsideRegion(m) == ~HadOpen(m) /\ ~HadClose(m) /\ ~InsideAfter(m - 1)

\* C2 Frame of the region pass: when a scan has returned, every paragraph outside
\* the marked regions that carries no token has the text, the formatting record and
\* the font size in effect (the size of its style) it had before the scan.
C2_Frame ==
    pc = "region_done" =>
        \A m \in 1..Len(body) :
            OutsideRegion(m) =>
                /\ body[m] = doc0.body[m]
                /\ styles[body[m].style].font_size
                       = doc0.styles[doc0.body[m].style].font_size

\* C3 Unclosed region: when a scan has returned, for every open-token paragraph
\* with no close token in any later paragraph, it and every paragraph after it, to
\* the last one, carry the target style.
C3_Unclosed ==
    pc = "region_done" =>
        \A a \in 1..Len(body) :
            (HadOpen(a) /\ \A m \in (a + 1)..Len(body) : ~HadClose(m))
                => \A m \in a..Len(body) : CarriesRegionStyle(m)

\* A scan returned on [plain, open, plain]: the region ran to the end.
C3_Witness ==
    /\ pc = "region_done"
    /\ Len(body) = 3
    /\ ~HadOpen(1) /\ HadOpen(2) /\ ~HadOpen(3)
    /\ \A m \in 1..3 : ~HadClose(m)
    /\ ~CarriesRegionFmt(1) /\ CarriesRegionFmt(3)

-----------------------------------------------------------------------------
(* Claims about ensure_captions (under SpecWalk).                          *)

\* The elements of the body that were not in the input.
IsNew(e) == e.id > Len(doc0.body)

\* The body's new paragraphs whose text starts with the characters of `word`.
NewParasStarting(word) ==
    {k \in 1..Len(body) :
        IsNew(body[k]) /\ body[k].kind = "p" /\ StartsWith(body[k].text, word)}

\* The image-bearing paragraphs and the tables of the input.
InputImages == {k \in 1..Len(doc0.body) : doc0.body[k].kind = "p" /\ doc0.body[k].drawing}
InputTables == {k \in 1..Len(doc0.body) : doc0.body[k].kind = "tbl"}

\* The input's elements are all in the body, in their input order.
OriginalsInOrder == SelectSeq(Ids(body), LAMBDA id : id <= Len(doc0.body)) = Ids(doc0.body)

\* C4 Structural walk completeness: with both caption flags set, ensure_captions
\* never ends by an exception, and when it has returned there is one new
\* "Figura ..." paragraph per input image, one new "Tabela ..." and one new
\* "Fonte: ..." paragraph per input table, and the input's elements are all there in
\* their order.
C4_WalkComplete ==
    (cfg.auto_captions_fig /\ cfg.auto_captions_tab) =>
        /\ pc # "raised"
        /\ pc = "walk_done" =>
              /\ Cardinality(NewParasStarting(<<"F","i","g","u","r","a"," ">>))
                     = Cardinality(InputImages)
              /\ Cardinality(NewParasStarting(<<"T","a","b","e","l","a"," ">>))
                     = Cardinality(InputTables)
              /\ Cardinality(NewParasStarting(<<"F","o","n","t","e",":">>))
                     = Cardinality(InputTables)
              /\ OriginalsInOrder

-----------------------------------------------------------------------------
(* Claims about prevent_table_row_split_and_repeat_header (under SpecTable). *)

\* The positions of the tables with at least one row.
RowedTables == {k \in 1..Len(body) : body[k].kind = "tbl" /\ body[k].rows # <<>>}

\* C5 as stated: after the hardening, row 0 of every table has the repeat-header
\* property, no row of index 1 or higher has it, and every row has cannot-split.
C5_HeaderOnlyOnRow0 ==
    pc = "table_done" =>
        \A k \in RowedTables :
            /\ body[k].rows[1].hdr > 0
            /\ \A r \in 2..Len(body[k].rows) : body[k].rows[r].hdr = 0
            /\ \A r \in 1..Len(body[k].rows) : body[k].rows[r].cant > 0

\* C5 as amended: after the hardening, row 0 of every table has the repeat-header
\* property, a row of index 1 or higher has it exactly if it had it in the input
\* (the function sets it on no such row and clears none), and every row has
\* cannot-split.
C5_HeaderSetOnRow0 ==
    pc = "table_done" =>
        \A k \in RowedTables :
            /\ body[k].rows[1].hdr > 0
            /\ \A r \in 2..Len(body[k].rows) : body[k].rows[r].hdr = doc0.body[k].rows[r].hdr
            /\ \A r \in 1..Len(body[k].rows) : body[k].rows[r].cant > 0

\* A two-row table whose second row was a header row in the input has been hardened.
C5_Witness ==
    /\ pc = "table_done"
    /\ Len(body[1].rows) = 2
    /\ doc0.body[1].rows[1].hdr = 0
    /\ doc0.body[1].rows[2].hdr = 1
    /\ doc0.body[1].rows[2].cant = 0

-----------------------------------------------------------------------------
(* Claims about remove_extra_blank_lines (under SpecBlank).                *)

\* The paragraphs of a body, in order.
Paragraphs(b) == SelectSeq(b, LAMBDA e : e.kind = "p")

\* A paragraph with nothing in it: no text but whitespace and no drawing.
IsEmptyPara(p) == Strip(p.text) = <<>> /\ ~p.drawing

\* a..b is a maximal run of two or more empty paragraphs of the paragraph sequence P.
MaximalEmptyRun(P, a, b) ==
    /\ a < b
    /\ \A m \in a..b : IsEmptyPara(P[m])
    /\ a > 1 => ~IsEmptyPara(P[a - 1])
    /\ b < Len(P) => ~IsEmptyPara(P[b + 1])

\* C6 Blank-line collapse: when remove_extra_blank_lines has returned (no removal
\* having raised), every maximal run of two or more empty paragraphs of the input
\* has exactly one paragraph left, no two consecutive paragraphs are both empty, and
\* the paragraphs that are not empty are all there, in their order.
C6_BlankCollapse ==
    (pc = "blank_done" /\ swallowed = <<>>) =>
        LET P0 == Paragraphs(doc0.body)
            P == Paragraphs(body)
        IN  /\ \A a, b \in 1..Len(P0) :
                  MaximalEmptyRun(P0, a, b) =>
                      Cardinality({m \in a..b : PosOf(body, P0[m].id) # 0}) = 1
            /\ \A m \in 1..(Len(P) - 1) : ~(IsEmptyPara(P[m]) /\ IsEmptyPara(P[m + 1]))
            /\ SelectSeq(P, LAMBDA e : ~IsEmptyPara(e))
                   = SelectSeq(P0, LAMBDA e : ~IsEmptyPara(e))

-----------------------------------------------------------------------------
(* Claims about the property passes (under SpecProps).                     *)

\* C8 Idempotence of the property passes: after set_page_margins,
\* configure_default_style and style_all_paragraphs have run twice with the same
\* arguments, the section margins, the styles and every paragraph are as they were
\* after the first run.
C8_Idempotent == pc = "props_done" => <<Doc>> = snap

\* The passes ran twice on a document they changed: a hand-formatted body
\* paragraph and a heading.
C8_Witness ==
    /\ pc = "props_done"
    /\ Len(body) >= 2
    /\ doc0.body[1].fmt = HandFmt /\ doc0.body[1].style = "Normal"
    /\ doc0.body[2].style = "Heading 4"
    /\ body[1].fmt # HandFmt
    /\ cfg.justify

-----------------------------------------------------------------------------
(* Claims about apply_abnt_formatting (under Spec).                        *)

\* The input has no marker token, no image and no table.
PlainInput ==
    \A k \in 1..Len(doc0.body) :
        /\ doc0.body[k].kind # "tbl"
        /\ ~doc0.body[k].drawing
        /\ \A tok \in {OPEN_LQ, CLOSE_LQ, OPEN_REFS, CLOSE_REFS} :
               ~Contains(doc0.body[k].text, tok)

\* The caption flags and the region flag are off.
CaptionAndRegionFlagsOff ==
    ~cfg.auto_captions_fig /\ ~cfg.auto_captions_tab /\ ~cfg.format_refs_block

\* Paragraph p of the body against the same paragraph q of the input: what is not
\* alignment, indent or the space before and after is as it was, and so is the text
\* unless the paragraph is a heading.
OnlyAlignmentAndIndent(p, q) ==
    /\ p.style = q.style
    /\ p.fmt.line_spacing = q.fmt.line_spacing
    /\ ~StartsWithHeading(p.style) => p.text = q.text

\* C7 Round-trip on untouched documents: for an input with no marker token, no
\* image and no table, run with the caption and region flags off, no style but the
\* default one changes, no element is added, no element is removed before the
\* blank-line collapse, and every remaining paragraph differs from its input only in
\* alignment and indent (the space before and after, the section margins and the
\* footer are left out of the comparison), non-heading text being unchanged.
C7_RoundTrip ==
    (PlainInput /\ CaptionAndRegionFlagsOff) =>
        /\ \A n \in DOMAIN styles : n # "Normal" => styles[n] = doc0.styles[n]
        /\ \A k \in 1..Len(body) : ~IsNew(body[k])
        /\ pc \notin {"blank_loop", "return", "end"} => Ids(body) = Ids(doc0.body)
        /\ \A k \in 1..Len(body) :
               body[k].kind = "p" =>
                   OnlyAlignmentAndIndent(body[k], doc0.body[PosOf(doc0.body, body[k].id)])

\* The steps of a run with arguments c, in the order of apply_abnt_formatting's text.
ExpectedOrder(c) ==
    <<"set_page_margins", "configure_default_style", "style_all_paragraphs",
      "configure_heading_styles">>
    \o (IF c.center_images THEN <<"center_paragraphs_with_drawings">> ELSE <<>>)
    \o <<"prevent_table_row_split_and_repeat_header", "ensure_captions",
         "process_long_quote_markers">>
    \o (IF c.format_refs_block THEN <<"apply_references_block_format">> ELSE <<>>)
    \o (IF c.footer_page_numbers THEN <<"add_page_number_to_footer">> ELSE <<>>)
    \o <<"remove_extra_blank_lines">>

\* The step whose loop is running at pc.
StepAt(label) ==
    IF label = "tables_loop" THEN "prevent_table_row_split_and_repeat_header"
    ELSE IF label = "captions_loop" THEN "ensure_captions"
    ELSE IF label = "long_quote_loop" THEN "process_long_quote_markers"
    ELSE IF label = "refs_loop" THEN "apply_references_block_format"
    ELSE "remove_extra_blank_lines"

\* What the passes leave on a paragraph that only they write to: the reference-list
\* pass writes the space after, the long-quotation pass the right indent.
RefsWrote(p) == p.fmt.space_after = "6pt"
LQWrote(p) == p.fmt.right_indent = "0cm"

\* The alignment and indents of paragraph p are those of the last step that wrote
\* them: the reference list, else the long quotation, else (for a paragraph of the
\* input) the image centering, else the heading pass, else style_all_paragraphs.
LastWriteWins(p) ==
    IF RefsWrote(p)
    THEN /\ p.fmt.alignment = "JUSTIFY" /\ p.fmt.first_line_indent = "0cm"
         /\ p.fmt.left_indent = "1.25cm" /\ p.fmt.line_spacing = "1.0"
    ELSE IF LQWrote(p)
    THEN /\ p.fmt.alignment = "JUSTIFY" /\ p.fmt.first_line_indent = "0cm"
         /\ p.fmt.left_indent = "4cm" /\ p.fmt.line_spacing = "1.0"
    ELSE IF IsNew(p) THEN p.fmt.alignment = "CENTER" /\ p.fmt.first_line_indent = "0cm"
    ELSE IF p.drawing /\ cfg.center_images
    THEN p.fmt.alignment = "CENTER" /\ p.fmt.first_line_indent = "0cm"
    ELSE IF StartsWithHeading(p.style)
    THEN p.fmt.alignment = "LEFT" /\ p.fmt.first_line_indent = "0cm"
    ELSE /\ p.fmt.first_line_indent = cfg.first_line_indent_cm
         /\ p.fmt.alignment =
                IF cfg.justify THEN "JUSTIFY"
                ELSE doc0.body[PosOf(doc0.body, p.id)].fmt.alignment

\* C9 Fixed execution order: the steps that have started are always a prefix of
\* margins, default style, paragraph alignment/indent, headings, image centering (if
\* enabled), table hardening, captions, long quotations, reference list (if enabled),
\* footer (if enabled), blank collapse; while the loop of a step runs that step is the
\* last one started; at the return all of them have run; and every paragraph then
\* carries the alignment and indents of the last step that wrote them.
C9_FixedOrder ==
    /\ Len(trace) <= Len(ExpectedOrder(cfg))
    /\ trace = SubSeq(ExpectedOrder(cfg), 1, Len(trace))
    /\ pc \in {"tables_loop", "captions_loop", "long_quote_loop", "refs_loop", "blank_loop"}
           => trace # <<>> /\ trace[Len(trace)] = StepAt(pc)
    /\ pc = "return" =>
           /\ trace = ExpectedOrder(cfg)
           /\ \A k \in 1..Len(body) : body[k].kind = "p" => LastWriteWins(body[k])

\* A run has returned whose image paragraph was written by style_all_paragraphs, the
\* centering, the long-quotation pass and the reference-list pass.
C9_Witness ==
    /\ pc = "return"
    /\ cfg.center_images /\ cfg.format_refs_block /\ cfg.justify
    /\ \E k \in 1..Len(body) :
           /\ body[k].kind = "p" /\ body[k].drawing
           /\ LQWrote(body[k]) /\ RefsWrote(body[k])

\* C10 Failure policy: once a step has failed no further step runs, the run ends
\* with the error shown, and the download is never offered for it.
C10_FailurePolicy ==
    (err # "none" \/ swallowed # <<>>) =>
        /\ pc \in {"raised", "end"}
        /\ ui # "offered"
        /\ pc = "end" => ui = "error"

-----------------------------------------------------------------------------
(* Claims about failures in the row loop (under Spec).                     *)

\* Every table of the body is hardened: each row has a cantSplit, row 0 a tblHeader.
AllTablesHardened ==
    \A k \in 1..Len(body) :
        body[k].kind = "tbl" =>
            /\ \A r \in 1..Len(body[k].rows) : body[k].rows[r].cant > 0
            /\ body[k].rows # <<>> => body[k].rows[1].hdr > 0

\* C11 Row hardening is non-fatal per row: when setting the cannot-split or the
\* repeat-header property has failed on a row, the run is not aborted (no exception
\* leaves apply_abnt_formatting, no error is shown), and at its end every row of
\* every table is hardened.
C11_RowFailureNonFatal ==
    err = "RowError" =>
        /\ pc # "raised"
        /\ ui # "error"
        /\ pc = "end" => AllTablesHardened

-----------------------------------------------------------------------------
(* More claims about the region scanners (under SpecRegion).               *)

\* The text t with the occurrences of both tokens of the scanner that ran removed.
WithoutTokens(t) == Replace(Replace(t, OpenTok(RanKind)), CloseTok(RanKind))

\* C12 Marker stripping: after a region pass no paragraph's text contains the open
\* or the close token of that region kind, and the text of every paragraph is its
\* input text with the token occurrences removed.
C12_MarkersStripped ==
    pc = "region_done" =>
        \A m \in 1..Len(body) :
            /\ ~Contains(body[m].text, OpenTok(RanKind))
            /\ ~Contains(body[m].text, CloseTok(RanKind))
            /\ body[m].text = WithoutTokens(doc0.body[m].text)

-----------------------------------------------------------------------------
(* More claims about ensure_captions (under SpecWalk).                     *)

\* C13 Insertion discipline of the body walk: the elements the loop has visited are
\* always the first elements of the input body, each once and in document order (so
\* no inserted caption is among them), and when the walk has returned they are all
\* the elements of the input body.
C13_InsertionDiscipline ==
    /\ Len(visited) <= Len(doc0.body)
    /\ visited = SubSeq(Ids(doc0.body), 1, Len(visited))
    /\ pc = "walk_done" => visited = Ids(doc0.body)

\* A walk has returned that inserted the two elements around a table standing
\* between two other elements of the input.
C13_Witness ==
    /\ pc = "walk_done"
    /\ tab_n > 0
    /\ Len(body) > Len(doc0.body) + 1
    /\ Len(doc0.body) > 2
    /\ doc0.body[2].kind = "tbl"

\* The positions in the body of the input's image-bearing paragraphs, in order.
ImagePos(b) ==
    SelectSeq([k \in 1..Len(b) |-> k],
              LAMBDA k : b[k].kind = "p" /\ b[k].drawing /\ ~IsNew(b[k]))

\* Element e is a paragraph of the given alignment with a first-line indent of 0
\* whose text starts with the characters of `word`.
IsCaption(e, align, word) ==
    /\ e.kind = "p"
    /\ e.fmt.alignment = align
    /\ e.fmt.first_line_indent = "0cm"
    /\ StartsWith(e.text, word)

\* C14 Caption placement and numbering: when the walk has returned, with figure
\* captions enabled the k-th image paragraph is directly followed by a centered
\* zero-indent paragraph 'Figura k - ...', and with table captions enabled the k-th
\* table is directly preceded by a centered zero-indent paragraph 'Tabela k - ...' and
\* directly followed by a left-aligned zero-indent paragraph 'Fonte: ...'.
C14_CaptionPlacement ==
    pc = "walk_done" =>
        /\ cfg.auto_captions_fig =>
               \A n \in 1..Len(ImagePos(body)) :
                   LET k == ImagePos(body)[n]
                   IN  /\ k < Len(body)
                       /\ IsNew(body[k + 1])
                       /\ IsCaption(body[k + 1], "CENTER", FigCaptionText(n))
        /\ cfg.auto_captions_tab =>
               \A n \in 1..Len(TablePos(body)) :
                   LET k == TablePos(body)[n]
                   IN  /\ k > 1 /\ k < Len(body)
                       /\ IsCaption(body[k - 1], "CENTER",
                                    <<"T","a","b","e","l","a"," ">> \o Str(n) \o <<" ">>)
                       /\ IsCaption(body[k + 1], "LEFT", <<"F","o","n","t","e",":">>)

\* The inside-region flag of the scanner that ran.
InsideFlag == IF RanKind = "lq" THEN in_block ELSE in_refs

\* Paragraph m of the input held a token of the scanner that ran.
HadMarker(m) == HadOpen(m) \/ HadClose(m)

\* The paragraphs scanned so far hold a marker, and the last one that does held the
\* open token.
LastMarkerIsOpen ==
    \E m \in 1..(idx - 1) :
        /\ HadOpen(m)
        /\ \A j \in (m + 1)..(idx - 1) : ~HadMarker(j)

\* Paragraph m held a close token only and no paragraph before it held an open one.
CloseBeforeOpen(m) ==
    /\ HadClose(m) /\ ~HadOpen(m)
    /\ \A j \in 1..(m - 1) : ~HadOpen(j)

\* C15 Scanner flag without nesting: during a region scan the flag is true exactly
\* when the last marker-bearing paragraph scanned so far held the open token (a second
\* open inside changes nothing, one close exits whatever came before); and after the
\* scan a close token met before any open has its paragraph styled and stripped,
\* while the unmarked paragraphs that follow it are as they were.
C15_FlagWithoutNesting ==
    /\ pc \in {"long_quote_loop", "refs_loop"} => (InsideFlag <=> LastMarkerIsOpen)
    /\ pc = "region_done" =>
           \A m \in 1..Len(body) :
               CloseBeforeOpen(m) =>
                   /\ CarriesRegionFmt(m)
                   /\ ~Contains(body[m].text, CloseTok(RanKind))
                   /\ \A j \in (m + 1)..Len(body) :
                          (\A q \in (m + 1)..j : ~HadMarker(q)) => body[j] = doc0.body[j]

\* A scan is over two open paragraphs followed by a close paragraph: the flag is off.
C15_Witness ==
    /\ pc \in {"long_quote_loop", "refs_loop"}
    /\ Len(doc0.body) > 2 /\ idx > 3
    /\ HadOpen(1) /\ ~HadClose(1)
    /\ HadOpen(2) /\ ~HadClose(2)
    /\ HadClose(3) /\ ~HadOpen(3)
    /\ ~InsideFlag

-----------------------------------------------------------------------------
(* More claims about remove_extra_blank_lines (under SpecBlank).           *)

\* C16 The blank-paragraph collapse never deletes a paragraph that carries an
\* embedded graphic: every image-bearing paragraph of the input is in the body at
\* every point of remove_extra_blank_lines and after it.
C16_ImagesKept ==
    \A k \in InputImages : PosOf(body, doc0.body[k].id) # 0

\* C17 remove_extra_blank_lines deletes a paragraph only if the body element
\* directly before it is a paragraph with blank text: in every step, an element that
\* leaves the body stood right after such a paragraph (so two empty paragraphs with
\* a table between them are both kept).
C17_DeletesOnlyAfterEmpty ==
    [][\A k \in 1..Len(body) :
           PosOf(body', body[k].id) = 0 =>
               /\ k > 1
               /\ body[k - 1].kind = "p"
               /\ IsBlank(body[k - 1])]_vars

-----------------------------------------------------------------------------
(* More claims about apply_abnt_formatting (under Spec).                   *)

\* C18 Hardening does not accumulate: after a run of apply_abnt_formatting that
\* returned, every table row carries exactly one cannot-split marker, row 0 exactly
\* one repeat-header marker and the table exactly one fixed-layout setting.
C18_HardenedOnce ==
    ui = "offered" =>
        \A k \in 1..Len(body) :
            body[k].kind = "tbl" =>
                /\ \A r \in 1..Len(body[k].rows) : body[k].rows[r].cant = 1
                /\ body[k].rows # <<>> => body[k].rows[1].hdr = 1
                /\ body[k].layout = 1

-----------------------------------------------------------------------------
(* The two scanners on the same paragraph sequence.                        *)

\* The shape of a text with long-quote tokens.
ShapeOf(t) == CHOOSE sh \in RegionShapes : Render("lq", sh) = t

\* The input of the long-quote scan with the reference tokens where the long-quote
\* tokens were.
WithRefsTokens(b) ==
    [k \in 1..Len(b) |-> [b[k] EXCEPT !.text = Render("refs", ShapeOf(@))]]

InitBoth ==
    \E n \in 0..MaxBody :
    \E c \in [1..n -> RegionShapes \X {"Normal", "Heading 1"}] :
        StartAt("long_quote",
                [k \in 1..n |-> Para(k, Render("lq", c[k][1]), c[k][2], NoFmt, FALSE)],
                Styles0, <<Section0>>, UiDefaults)

\* process_long_quote_markers has returned: its result is recorded and
\* apply_references_block_format is called on the same sequence with its own tokens.
BothSwap ==
    /\ pc = "lq_ran"
    /\ snap' = <<Doc>>
    /\ body' = WithRefsTokens(doc0.body)
    /\ styles' = doc0.styles
    /\ pc' = "refs"
    /\ UNCHANGED <<sections, cfg, plist, idx, in_block, changed, in_refs, count, fig_n,
                   tab_n, it, i, nextid, err, ui, doc0, trace, visited, swallowed>>

NextBoth ==
    \/ LQBegin
    \/ LQStep
    \/ LQReturn("lq_ran")
    \/ BothSwap
    \/ RefsBegin
    \/ RefsStep
    \/ RefsReturn("both_done")

SpecBoth == InitBoth /\ [][NextBoth]_vars

\* Paragraph m of body b was styled by a scanner (the inputs carry no formatting).
WasStyled(b, m) == b[m].fmt # NoFmt

\* Text t1 and text t2 are the same text, t1 with the long-quote tokens and t2 with
\* the reference tokens in the same places.
SameTextModuloTokens(t1, t2) ==
    \E sh \in SeqsUpTo({"a", "O", "C"}, 3) :
        Render("lq", sh) = t1 /\ Render("refs", sh) = t2

\* C19 The two region scanners are the same state machine: on the same paragraph
\* sequence, each with its own tokens in the same positions, they style the same
\* paragraph positions, leave the same text (tokens stripped in the same places) and
\* return the same count.
C19_SameStateMachine ==
    pc = "both_done" =>
        /\ Len(body) = Len(snap[1].body)
        /\ \A m \in 1..Len(body) :
               /\ WasStyled(body, m) <=> WasStyled(snap[1].body, m)
               /\ SameTextModuloTokens(snap[1].body[m].text, body[m].text)
        /\ changed = count

\* Both scanners have run on a sequence with a close token before any open token
\* and a paragraph that holds both tokens.
C19_Witness ==
    /\ pc = "both_done"
    /\ Len(body) > 2
    /\ doc0.body[1].text = Render("lq", <<"a", "C">>)
    /\ doc0.body[2].text = Render("lq", <<"a">>)
    /\ doc0.body[3].text = Render("lq", <<"O", "a", "C">>)
    /\ count > 0

-----------------------------------------------------------------------------
(* Claims about the markers within apply_abnt_formatting (under Spec).     *)

\* Every paragraph of the body that holds token tok held it in the input document.
TokenFromInput(tok) ==
    \A k \in 1..Len(body) :
        (body[k].kind = "p" /\ Contains(body[k].text, tok)) =>
            /\ ~IsNew(body[k])
            /\ Contains(doc0.body[PosOf(doc0.body, body[k].id)].text, tok)

\* C20 Within apply_abnt_formatting a paragraph is treated as a region marker only
\* if its text in the input document held the exact literal token: when a scanner is
\* called, every paragraph that holds one of its tokens held it in the input.
C20_MarkersFromInput ==
    /\ pc = "long_quote" => TokenFromInput(OPEN_LQ) /\ TokenFromInput(CLOSE_LQ)
    /\ pc = "refs" => TokenFromInput(OPEN_REFS) /\ TokenFromInput(CLOSE_REFS)

-----------------------------------------------------------------------------
(* Termination of remove_extra_blank_lines.                                *)

\* remove_extra_blank_lines on its own, the interpreter never stopping in the middle
\* of the loop: a step that can be taken is eventually taken.
SpecBlankFair == InitBlank /\ [][NextBlank]_vars /\ WF_vars(NextBlank)

\* C21 remove_extra_blank_lines terminates on every finite paragraph sequence: each
\* iteration of the loop either removes one paragraph and keeps the index or keeps
\* the body and advances the index by one, also when the removal failed and the
\* exception was passed over, and the function eventually returns.
C21_Terminates ==
    /\ [][(pc = "blank_loop" /\ pc' = "blank_loop") =>
              \/ Len(body') = Len(body) - 1 /\ i' = i
              \/ body' = body /\ i' = i + 1]_vars
    /\ <>(pc = "blank_done")

\* The function has returned after a removal that failed and one that succeeded.
C21_Witness ==
    /\ pc = "blank_done"
    /\ swallowed # <<>>
    /\ Len(body) < Len(doc0.body)

=============================================================================
